---- MODULE Spec2Model ----
(***************************************************************************)
(* Model of baaaaaaaaackitup: the backup pipeline (BackupManager) and the  *)
(* restore pipeline (RestoreManager).                                      *)
(*                                                                         *)
(* Two specifications share the module:                                    *)
(*   SpecArchive  the content path of one backup and one restore: the path *)
(*                resolver, the archive builder over a file tree, and the  *)
(*                safety-checked extraction;                               *)
(*   SpecBackup   the destination directory over a sequence of backup      *)
(*                runs: stages, artifact naming and retention rotation.    *)
(*                                                                         *)
(* Strings are sequences of one-character strings, so that the substring   *)
(* tests of the code ('..' in name, pattern in path) are computed on the   *)
(* characters.  A path is the sequence of its parts (pathlib's .parts):    *)
(* an absolute path starts with the part "/".                              *)
(***************************************************************************)
EXTENDS Integers, Sequences, FiniteSets, TLC

\* ------------------------------------------------------------------------
\* Bounds of the model
\* ------------------------------------------------------------------------
MaxLevels == 3
MaxTargets == 2
MaxMembers == 3
MaxOld == 2
MaxKeep == 1
MaxRuns == 2
MaxTicks == 1
MaxDirect == 2

\* ------------------------------------------------------------------------
\* Strings and paths
\* ------------------------------------------------------------------------
Min(a, b) == IF a <= b THEN a ELSE b

Root == <<"/">>

\* s.startswith(pre)
StartsWith(s, pre) == Len(s) >= Len(pre) /\ SubSeq(s, 1, Len(pre)) = pre

\* pat in s  (Python substring test)
Contains(s, pat) ==
    \E i \in 1..(Len(s) - Len(pat) + 1) : SubSeq(s, i, i + Len(pat) - 1) = pat

RECURSIVE JoinRel(_)
JoinRel(p) ==
    IF Len(p) = 0 THEN <<>>
    ELSE IF Len(p) = 1 THEN p[1]
    ELSE p[1] \o <<"/">> \o JoinRel(Tail(p))

\* str(Path): "/" + the other parts joined by "/" for an absolute path,
\* the parts joined by "/" otherwise ("." for the empty path).
PathStr(p) ==
    IF Len(p) = 0 THEN <<".">>
    ELSE IF p[1] = Root THEN <<"/">> \o JoinRel(Tail(p))
    ELSE JoinRel(p)

\* Python's seq[-n:] : the last n elements, but the WHOLE sequence for n = 0
\* (-0 is 0, and seq[0:] is everything).
PySliceLast(s, n) ==
    IF n = 0 \/ n >= Len(s) THEN s ELSE SubSeq(s, Len(s) - n + 1, Len(s))

\* full_path.relative_to(backup_dir) succeeds
IsRelativeTo(full_path, backup_dir) == StartsWith(full_path, backup_dir)

RelativeTo(full_path, backup_dir) ==
    SubSeq(full_path, Len(backup_dir) + 1, Len(full_path))

\* BackupManager.get_preserved_path with self.preserve_levels = levels
get_preserved_path(full_path, backup_dir, levels) ==
    IF IsRelativeTo(full_path, backup_dir)
    THEN LET backup_parts == backup_dir
             num_levels == Min(levels, Len(backup_parts))
             preserved_parents == PySliceLast(backup_parts, num_levels)
         IN  preserved_parents \o RelativeTo(full_path, backup_dir)
    ELSE <<full_path[Len(full_path)]>>

\* BackupManager.should_exclude: substring containment, pattern by pattern
exclude_patterns ==
    { <<"/", ".", "g", "i", "t", "/">>,
      <<"/", ".", "g", "i", "t">>,
      <<"_", "_", "p", "y", "c", "a", "c", "h", "e", "_", "_">>,
      <<"*", ".", "p", "y", "c">>,
      <<"*", ".", "p", "y", "o">> }

\* a test that excludes nothing
should_exclude_Never(path) == FALSE

should_exclude(path) == \E pattern \in exclude_patterns : Contains(path, pattern)

\* ------------------------------------------------------------------------
\* The file trees the builder is run on (inputs)
\* ------------------------------------------------------------------------
Seg_a == <<"a">>

Seg_u == <<"u">>
Seg_b == <<"b">>
Seg_d == <<"d">>
Seg_e == <<"e">>
Seg_f == <<"f">>
Seg_s == <<"s">>
Seg_p == <<"p">>
Seg_q == <<"q">>
Seg_git == <<".", "g", "i", "t">>
Seg_pyc == <<"m", ".", "p", "y", "c">>
Seg_dots == <<"n", ".", ".", "t">>

\* the candidate backup targets: /d/a, /e/a, /d/b
T_da == <<Root, Seg_d, Seg_a>>
T_ea == <<Root, Seg_e, Seg_a>>
T_db == <<Root, Seg_d, Seg_b>>
TargetUniverse == {T_da, T_ea, T_db}

\* every filesystem object a tree may hold, in directory-listing order
FsOrder ==
    << T_da, T_da \o <<Seg_f>>, T_da \o <<Seg_p>>, T_da \o <<Seg_s>>,
       T_da \o <<Seg_s, Seg_f>>, T_da \o <<Seg_git>>,
       T_ea, T_ea \o <<Seg_f>>, T_ea \o <<Seg_pyc>>, T_ea \o <<Seg_u>>,
       T_db, T_db \o <<Seg_dots>>, T_db \o <<Seg_q>> >>

FsUniverse == {FsOrder[i] : i \in 1..Len(FsOrder)}

Parent(p) == SubSeq(p, 1, Len(p) - 1)

Name(p) == p[Len(p)]

Kind(p) ==
    IF p \in TargetUniverse \/ Name(p) \in {Seg_s, Seg_git, Seg_u}
    THEN "dir" ELSE "file"

\* content bytes of a file; its size is the length
Data(p) ==
    IF p = T_da \o <<Seg_s, Seg_f>> THEN <<>>
    ELSE IF Parent(p) = T_ea THEN <<"y">>
    ELSE <<"x">>

\* what opening the file for reading raises: nothing, PermissionError, or
\* another OSError
Fault(p) ==
    IF Name(p) = Seg_p THEN "perm"
    ELSE IF Name(p) = Seg_q THEN "other"
    ELSE "none"

\* listing the directory raises PermissionError
Unreadable(p) == Name(p) = Seg_u

\* a tree holds the parent of everything it holds (below the targets)
IsTree(t) == \A p \in t : p \in TargetUniverse \/ Parent(p) \in t

Trees == {t \in SUBSET FsUniverse : IsTree(t)}

RECURSIVE SeqsUpTo(_, _)
SeqsUpTo(S, n) ==
    IF n = 0 THEN {<<>>}
    ELSE LET shorter == SeqsUpTo(S, n - 1)
         IN  shorter \cup {Append(q, x) : q \in shorter, x \in S}

IsInjective(q) == \A i, j \in 1..Len(q) : q[i] = q[j] => i = j

TargetLists == {q \in SeqsUpTo(TargetUniverse, MaxTargets) : IsInjective(q)}

\* ------------------------------------------------------------------------
\* State
\* ------------------------------------------------------------------------
VARIABLES
    \* --- configuration and inputs of the builder
    preserve_levels,    \* BackupManager.preserve_levels
    backup_dirs,        \* BackupManager.backup_dirs, in configuration order
    fs,                 \* the filesystem objects that exist
    \* --- create_tar_archive
    bpc,                \* position of the backup run
    berr,               \* the exception that ended it ("" while none)
    dir_idx,            \* index of dir_path in backup_dirs
    walkq,              \* directories os.walk still has to visit, next first
    tar,                \* members written to backup.tar, in order
    resolved,           \* the calls of get_preserved_path made so far
    skipped_files,      \* skipped_files of the target being processed
    perm_raised,        \* what raised PermissionError under that target
    files_processed,
    total_source_size,
    bwarn,              \* warnings the builder logged
    \* --- artifact of the run and the restore of it
    compressed,         \* backup.tar.gz
    backup_file,        \* RestoreManager.backup_file (the .gz.gpg artifact)
    restore_pw,         \* content of RestoreManager.password_file
    rpc,                \* position of the restore run
    rerr,               \* the exception that ended it ("" while none)
    decrypted,          \* what decrypt_file wrote to backup.gz
    rtar,               \* what decompress_file wrote to backup.tar: members
    ridx,               \* index of the member being validated / extracted
    extracted,          \* what exists under extract_path
    rstaging_dir,       \* the TemporaryDirectory of restore exists
    rstaging,           \* names of the files in it
    dec                 \* what the decrypt_file call of the restore did

archiveVars ==
    << preserve_levels, backup_dirs, fs, bpc, berr, dir_idx, walkq, tar,
       resolved, skipped_files, perm_raised, files_processed,
       total_source_size, bwarn, compressed, backup_file, restore_pw, rpc, rerr, decrypted, rtar, ridx,
       extracted, rstaging_dir, rstaging, dec >>

builderVars ==
    << bpc, berr, dir_idx, walkq, tar, resolved, skipped_files, perm_raised,
       files_processed, total_source_size, bwarn, compressed >>

restoreVars ==
    << rpc, rerr, decrypted, rtar, ridx, extracted, rstaging_dir, rstaging,
       dec >>

VARIABLES
    \* --- the destination directory over a sequence of backup runs
    max_backups,        \* BackupManager.max_backups
    now,                \* the wall clock, in seconds
    dest,               \* entries of dest_dir: [name, kind, gen]
    pc,                 \* position of perform_backup
    err,                \* the exception that ended the run ("" while none)
    run,                \* number of runs started
    staging_dir,        \* the TemporaryDirectory exists
    staging,            \* names of the files in it
    backup_name,        \* backup_name of the run
    \* --- rotate_old_backups
    rot,                \* "off", "loop" (inside the call) or "returned"
    backups,            \* the local list backups
    listed,             \* the names the call listed when it started
    attempts,           \* names whose unlink this call attempted, in order
    failures,           \* names whose unlink raised in this call
    rot_warnings,       \* warnings this call logged
    calls_in_row,       \* calls returned one after the other, no run between
    prev_failed,        \* the call before this one had a failed unlink
    \* --- the course of the run
    trace,              \* stages the run started, then what the call delivered
    comp,               \* what the compress_file call of the run did
    enc                 \* what the encrypt_file call of the run did

backupVars ==
    << max_backups, now, dest, pc, err, run, staging_dir, staging, backup_name,
       rot, backups, listed, attempts, failures, rot_warnings, calls_in_row,
       prev_failed, trace, comp, enc >>

runVars ==
    << pc, err, run, staging_dir, staging, backup_name, trace, comp, enc >>

rotVars ==
    << rot, backups, listed, attempts, failures, rot_warnings, calls_in_row,
       prev_failed >>

\* ------------------------------------------------------------------------
\* The external tools: pigz, gzip, gpg
\* ------------------------------------------------------------------------
\* what the external compressor can do: exit 0, exit non-zero, be absent
\* (Popen raises FileNotFoundError), or fail in any other way (Popen raises
\* another OSError, reading the input or writing the output raises)
PigzOutcomes == {"ok", "nonzero", "absent", "error"}

\* what the gzip module can do
GzipOutcomes == {"ok", "failed"}

\* compresslevel of the gzip fallback
GzipLevel == 6

NoCompress == [pigz |-> "untried", gzip |-> "untried", level |-> 0,
               warned |-> FALSE, raised |-> FALSE]

\* compress_file: pigz first; a non-zero exit and FileNotFoundError are
\* logged as a warning, and both lead to gzip.open(..., compresslevel=6);
\* every other exception, of either path, is wrapped in CompressionError
compress_file(pigz_out, gzip_out) ==
    IF pigz_out = "ok"
    THEN [pigz |-> "ok", gzip |-> "untried", level |-> 0,
          warned |-> FALSE, raised |-> FALSE]
    ELSE IF pigz_out = "error"
    THEN [pigz |-> "error", gzip |-> "untried", level |-> 0,
          warned |-> FALSE, raised |-> TRUE]
    ELSE [pigz |-> pigz_out, gzip |-> gzip_out, level |-> GzipLevel,
          warned |-> TRUE, raised |-> (gzip_out = "failed")]

\* exit code gpg reports for a failure
GpgFailure == 2

\* what gpg can do: run and exit with a code, with or without output on
\* stderr, or not run at all (subprocess.run raises)
GpgRuns ==
    [ran : {TRUE}, rc : {0, GpgFailure}, stderr : BOOLEAN]
    \cup {[ran |-> FALSE, rc |-> 0, stderr |-> FALSE]}

NoGpg == [ran |-> FALSE, rc |-> 0, stderr |-> FALSE, warned |-> FALSE,
          result |-> "none"]

\* a variant that treats output on stderr as a failure
encrypt_file_StderrFails(g) ==
    [ran |-> g.ran, rc |-> g.rc, stderr |-> g.stderr,
     warned |-> (g.ran /\ g.stderr),
     result |-> IF g.ran /\ g.rc = 0 /\ ~g.stderr THEN "True"
                ELSE "EncryptionError"]

\* encrypt_file: result.stderr is logged as a warning, a non-zero returncode
\* raises EncryptionError, otherwise True is returned; an exception of
\* subprocess.run is wrapped in EncryptionError
encrypt_file(g) ==
    [ran |-> g.ran, rc |-> g.rc, stderr |-> g.stderr,
     warned |-> (g.ran /\ g.stderr),
     result |-> IF g.ran /\ g.rc = 0 THEN "True" ELSE "EncryptionError"]

\* decrypt_file: as encrypt_file, around gpg --decrypt
decrypt_file(g) ==
    [ran |-> g.ran, rc |-> g.rc, stderr |-> g.stderr,
     warned |-> (g.ran /\ g.stderr),
     result |-> IF g.ran /\ g.rc = 0 THEN "True" ELSE "EncryptionError"]

\* ------------------------------------------------------------------------
\* Archive, compressed stream and encrypted artifact
\* ------------------------------------------------------------------------
\* content of BackupManager.password_file
password == "pw"

NoFile == [fmt |-> "none", body |-> <<>>, pw |-> ""]

\* gzip / pigz output for a tar file
Gz(members) == [fmt |-> "gz", body |-> members, pw |-> ""]

\* gpg -c output for a file, under a passphrase
Gpg(file, pw) == [fmt |-> "gpg", body |-> file, pw |-> pw]

\* arcname.lstrip("/") : tar.add records a file's name without leading slashes
RECURSIVE LStripSlash(_)
LStripSlash(s) ==
    IF Len(s) > 0 /\ s[1] = "/" THEN LStripSlash(Tail(s)) ELSE s

\* the member written for a directory: tarfile.TarInfo(str(preserved_path))
DirMember(p, dir_path, levels) ==
    [ name |-> PathStr(get_preserved_path(p, dir_path, levels)),
      type |-> "dir", data |-> <<>>, src |-> p ]

\* the member written for a file: tar.add(file, arcname=str(preserved_path))
FileMember(p, dir_path, levels) ==
    [ name |-> LStripSlash(PathStr(get_preserved_path(p, dir_path, levels))),
      type |-> "file", data |-> Data(p), src |-> p ]

Resolution(p, dir_path, levels) ==
    [ full |-> p, root |-> dir_path, out |-> get_preserved_path(p, dir_path, levels) ]

\* ------------------------------------------------------------------------
\* create_tar_archive
\* ------------------------------------------------------------------------
\* the entries of directory root of the given kind, in listing order
Listing(root, kind) ==
    IF Unreadable(root) THEN <<>>
    ELSE SelectSeq(FsOrder, LAMBDA p : p \in fs /\ Len(p) > 1
                                       /\ Parent(p) = root /\ Kind(p) = kind)

\* dirs[:] = [d for d in dirs if not self.should_exclude(f"{root}/{d}")]
PrunedDirs(root) ==
    SelectSeq(Listing(root, "dir"),
              LAMBDA p : ~should_exclude(PathStr(root) \o <<"/">> \o Name(p)))

\* the directories an entry is written for
IncludedDirs(root) ==
    SelectSeq(PrunedDirs(root), LAMBDA p : ~should_exclude(PathStr(p)))

\* the files the loop tries to add
IncludedFiles(root) ==
    SelectSeq(Listing(root, "file"), LAMBDA p : ~should_exclude(PathStr(p)))

\* a loop that passes over every exception of tar.add
FirstHardFault_PassOver(files) == Len(files) + 1

\* index of the first file whose tar.add raises something that is not a
\* PermissionError (Len + 1 when there is none): the loop stops there
FirstHardFault(files) ==
    IF \E i \in 1..Len(files) : Fault(files[i]) = "other"
    THEN CHOOSE i \in 1..Len(files) :
            /\ Fault(files[i]) = "other"
            /\ \A j \in 1..(i - 1) : Fault(files[j]) # "other"
    ELSE Len(files) + 1

RECURSIVE SumSizes(_)
SumSizes(files) ==
    IF Len(files) = 0 THEN 0 ELSE Len(Data(Head(files))) + SumSizes(Tail(files))

SeqToSet(q) == {q[i] : i \in 1..Len(q)}

\* with tarfile.open(tar_path, 'w') as tar:
A_Open ==
    /\ bpc = "init"
    /\ bpc' = "target"
    /\ dir_idx' = 1
    /\ tar' = <<>>
    /\ UNCHANGED << preserve_levels, backup_dirs, fs, berr, walkq, resolved,
                    skipped_files, perm_raised, files_processed,
                    total_source_size, bwarn,
                    compressed, backup_file, restore_pw >>
    /\ UNCHANGED restoreVars
    /\ UNCHANGED backupVars

\* for dir_path in self.backup_dirs: a target that does not exist is skipped
\* with a warning, an existing one starts os.walk
A_NextTarget ==
    /\ bpc = "target"
    /\ dir_idx <= Len(backup_dirs)
    /\ LET dir_path == backup_dirs[dir_idx]
       IN  IF dir_path \notin fs
           THEN /\ bwarn' = bwarn + 1
                /\ dir_idx' = dir_idx + 1
                /\ UNCHANGED << bpc, walkq, skipped_files, perm_raised >>
           ELSE /\ bpc' = "walk"
                /\ walkq' = <<dir_path>>
                /\ skipped_files' = <<>>
                /\ perm_raised' = {}
                /\ UNCHANGED << bwarn, dir_idx >>
    /\ UNCHANGED << preserve_levels, backup_dirs, fs, berr, tar, resolved,
                    files_processed, total_source_size, compressed,
                    backup_file, restore_pw >>
    /\ UNCHANGED restoreVars
    /\ UNCHANGED backupVars

\* one iteration of `for root, dirs, files in os.walk(dir_path)`; os.walk
\* is called without onerror, so a directory that cannot be listed yields
\* nothing and raises nothing
A_WalkStep ==
    /\ bpc = "walk"
    /\ walkq # <<>>
    /\ LET dir_path == backup_dirs[dir_idx]
           root     == Head(walkq)
           dirs     == IncludedDirs(root)
           files    == IncludedFiles(root)
           stop     == FirstHardFault(files)
           tried    == SubSeq(files, 1, Min(stop, Len(files)))
           done     == SubSeq(files, 1, stop - 1)
           added    == SelectSeq(done, LAMBDA p : Fault(p) = "none")
           denied   == SelectSeq(done, LAMBDA p : Fault(p) = "perm")
           DirM(p)  == DirMember(p, dir_path, preserve_levels)
           FileM(p) == FileMember(p, dir_path, preserve_levels)
       IN  /\ tar' = tar \o [i \in 1..Len(dirs) |-> DirM(dirs[i])]
                       \o [i \in 1..Len(added) |-> FileM(added[i])]
           /\ resolved' = resolved \cup
                 { Resolution(p, dir_path, preserve_levels) :
                     p \in SeqToSet(dirs) \cup SeqToSet(tried) }
           /\ total_source_size' = total_source_size + SumSizes(tried)
           /\ files_processed' = files_processed + Len(added)
           /\ skipped_files' = skipped_files \o denied
           /\ perm_raised' = perm_raised \cup SeqToSet(denied)
                                \cup (IF Unreadable(root) THEN {root} ELSE {})
           /\ bwarn' = bwarn + Len(denied)
           /\ IF stop <= Len(files)
              THEN \* raise DirectoryError(f"Error processing {dir_path}: ...")
                   /\ bpc' = "failed"
                   /\ berr' = "DirectoryError"
                   /\ walkq' = <<>>
              ELSE /\ walkq' = PrunedDirs(root) \o Tail(walkq)
                   /\ UNCHANGED << bpc, berr >>
    /\ UNCHANGED << preserve_levels, backup_dirs, fs, dir_idx, compressed,
                    backup_file, restore_pw >>
    /\ UNCHANGED restoreVars
    /\ UNCHANGED backupVars

\* os.walk is exhausted: the skipped-files warning, then the next target
A_EndTarget ==
    /\ bpc = "walk"
    /\ walkq = <<>>
    /\ bwarn' = IF skipped_files # <<>> THEN bwarn + 1 ELSE bwarn
    /\ dir_idx' = dir_idx + 1
    /\ bpc' = "target"
    /\ UNCHANGED << preserve_levels, backup_dirs, fs, berr, walkq, tar,
                    resolved, skipped_files, perm_raised, files_processed,
                    total_source_size, compressed, backup_file, restore_pw >>
    /\ UNCHANGED restoreVars
    /\ UNCHANGED backupVars

\* the final statistics: total_tar_size/total_source_size raises
\* ZeroDivisionError when no source byte was counted
A_LogStatistics ==
    /\ bpc = "target"
    /\ dir_idx > Len(backup_dirs)
    /\ IF total_source_size = 0
       THEN bpc' = "failed" /\ berr' = "ZeroDivisionError"
       ELSE bpc' = "archived" /\ UNCHANGED berr
    /\ UNCHANGED << preserve_levels, backup_dirs, fs, dir_idx, walkq, tar,
                    resolved, skipped_files, perm_raised, files_processed,
                    total_source_size, bwarn, compressed, backup_file,
                    restore_pw >>
    /\ UNCHANGED restoreVars
    /\ UNCHANGED backupVars

\* ------------------------------------------------------------------------
\* perform_backup after the archive: compress, encrypt (content only)
\* ------------------------------------------------------------------------
\* self.compress_file(tar_path, compressed_path)
A_Compress ==
    /\ bpc = "archived"
    /\ compressed' = Gz(tar)
    /\ bpc' = "compressed"
    /\ UNCHANGED << preserve_levels, backup_dirs, fs, berr, dir_idx, walkq, tar,
                    resolved, skipped_files, perm_raised, files_processed,
                    total_source_size, bwarn, backup_file, restore_pw >>
    /\ UNCHANGED restoreVars
    /\ UNCHANGED backupVars

\* shutil.copy2 to the destination, then gpg -c with the passphrase file
A_Encrypt ==
    /\ bpc = "compressed"
    /\ backup_file' = Gpg(compressed, password)
    /\ bpc' = "done"
    /\ UNCHANGED << preserve_levels, backup_dirs, fs, berr, dir_idx, walkq, tar,
                    resolved, skipped_files, perm_raised, files_processed,
                    total_source_size, bwarn, compressed, restore_pw >>
    /\ UNCHANGED restoreVars
    /\ UNCHANGED backupVars

\* ------------------------------------------------------------------------
\* RestoreManager
\* ------------------------------------------------------------------------
\* member.name.startswith('/') or '..' in member.name
IsUnsafeName(name) == StartsWith(name, <<"/">>) \/ Contains(name, <<".", ".">>)

\* tar.extractall writes one member: a later member replaces an earlier one
\* of the same name
ExtractMember(tree, m) ==
    {e \in tree : e.name # m.name}
        \cup {[name |-> m.name, type |-> m.type, data |-> m.data]}

\* an exception handler that leaves the staging directory behind
RestoreFails_NoCleanup(cause) ==
    /\ rpc' = "failed"
    /\ rerr' = cause
    /\ UNCHANGED << rstaging_dir, rstaging >>

\* an exception leaves the with block (the staging directory is removed) and
\* is caught and wrapped in RestoreError
RestoreFails(cause) ==
    /\ rpc' = "failed"
    /\ rerr' = cause
    /\ rstaging_dir' = FALSE
    /\ rstaging' = {}

\* restore of the artifact a RestoreManager was constructed for:
\* with tempfile.TemporaryDirectory() as temp_dir
R_Start ==
    /\ rpc = "init"
    /\ bpc \in {"done", "off"}
    /\ backup_file # NoFile
    /\ rpc' = "decrypt"
    /\ rstaging_dir' = TRUE
    /\ rstaging' = {}
    /\ UNCHANGED << rerr, decrypted, rtar, ridx, extracted, dec >>
    /\ UNCHANGED << preserve_levels, backup_dirs, fs, backup_file, restore_pw >>
    /\ UNCHANGED builderVars
    /\ UNCHANGED backupVars

\* stage 1, decrypt_file: gpg --decrypt with the passphrase file writes
\* backup.gz and exits with 0 when the artifact is one that the passphrase
\* opens
R_Decrypt ==
    /\ rpc = "decrypt"
    /\ \E g \in GpgRuns :
         /\ g.ran =>
              ((g.rc = 0) = (backup_file.fmt = "gpg" /\ backup_file.pw = restore_pw))
         /\ LET d == decrypt_file(g)
            IN  /\ dec' = d
                /\ IF d.result = "True"
                   THEN /\ decrypted' = backup_file.body
                        /\ rstaging' = rstaging \cup {"backup.gz"}
                        /\ rpc' = "decompress"
                        /\ UNCHANGED << rerr, rstaging_dir >>
                   ELSE /\ RestoreFails("EncryptionError")
                        /\ UNCHANGED decrypted
    /\ UNCHANGED << rtar, ridx, extracted >>
    /\ UNCHANGED << preserve_levels, backup_dirs, fs, backup_file, restore_pw >>
    /\ UNCHANGED builderVars
    /\ UNCHANGED backupVars

\* a stage 2 that goes on to extract_tar whatever gzip did
R_Decompress_IgnoreFailure ==
    /\ rpc = "decompress"
    /\ dec' = NoGpg
    /\ rtar' = IF decrypted.fmt = "gz" THEN decrypted.body ELSE <<>>
    /\ rstaging' = rstaging \cup {"backup.tar"}
    /\ rpc' = "validate"
    /\ ridx' = 1
    /\ UNCHANGED << rerr, rstaging_dir >>
    /\ UNCHANGED << decrypted, extracted >>
    /\ UNCHANGED << preserve_levels, backup_dirs, fs, backup_file, restore_pw >>
    /\ UNCHANGED builderVars
    /\ UNCHANGED backupVars

\* stage 2, decompress_file: gzip.open of the decrypted file writes
\* backup.tar.  The locals of decrypt_file are gone.
R_Decompress ==
    /\ rpc = "decompress"
    /\ dec' = NoGpg
    /\ IF decrypted.fmt = "gz"
       THEN /\ rtar' = decrypted.body
            /\ rstaging' = rstaging \cup {"backup.tar"}
            /\ rpc' = "validate"
            /\ ridx' = 1
            /\ UNCHANGED << rerr, rstaging_dir >>
       ELSE /\ RestoreFails("CompressionError")
            /\ UNCHANGED << rtar, ridx >>
    /\ UNCHANGED << decrypted, extracted >>
    /\ UNCHANGED << preserve_levels, backup_dirs, fs, backup_file, restore_pw >>
    /\ UNCHANGED builderVars
    /\ UNCHANGED backupVars

\* a validation that looks at the first member only and then extracts
R_Validate_FirstOnly ==
    /\ rpc = "validate"
    /\ IF ridx > Len(rtar) \/ ridx > 1
       THEN /\ rpc' = "extract"
            /\ ridx' = 1
            /\ UNCHANGED << rerr, rstaging_dir, rstaging >>
       ELSE IF IsUnsafeName(rtar[ridx].name)
       THEN /\ RestoreFails("DirectoryError")
            /\ UNCHANGED ridx
       ELSE /\ ridx' = ridx + 1
            /\ UNCHANGED << rpc, rerr, rstaging_dir, rstaging >>
    /\ UNCHANGED << decrypted, rtar, extracted, dec >>
    /\ UNCHANGED << preserve_levels, backup_dirs, fs, backup_file, restore_pw >>
    /\ UNCHANGED builderVars
    /\ UNCHANGED backupVars

\* stage 3, extract_tar, the loop over tar.getmembers(): one member is
\* checked
R_Validate ==
    /\ rpc = "validate"
    /\ IF ridx > Len(rtar)
       THEN /\ rpc' = "extract"
            /\ ridx' = 1
            /\ UNCHANGED << rerr, rstaging_dir, rstaging >>
       ELSE IF IsUnsafeName(rtar[ridx].name)
       THEN /\ RestoreFails("DirectoryError")
            /\ UNCHANGED ridx
       ELSE /\ ridx' = ridx + 1
            /\ UNCHANGED << rpc, rerr, rstaging_dir, rstaging >>
    /\ UNCHANGED << decrypted, rtar, extracted, dec >>
    /\ UNCHANGED << preserve_levels, backup_dirs, fs, backup_file, restore_pw >>
    /\ UNCHANGED builderVars
    /\ UNCHANGED backupVars

\* stage 3, extract_tar, tar.extractall(path=self.extract_path): one member
\* is written; after the last one restore returns True, leaving the with
\* block
R_Extract ==
    /\ rpc = "extract"
    /\ IF ridx > Len(rtar)
       THEN /\ rpc' = "done"
            /\ rstaging_dir' = FALSE
            /\ rstaging' = {}
            /\ UNCHANGED << ridx, extracted >>
       ELSE /\ extracted' = ExtractMember(extracted, rtar[ridx])
            /\ ridx' = ridx + 1
            /\ UNCHANGED << rpc, rstaging_dir, rstaging >>
    /\ UNCHANGED << rerr, decrypted, rtar, dec >>
    /\ UNCHANGED << preserve_levels, backup_dirs, fs, backup_file, restore_pw >>
    /\ UNCHANGED builderVars
    /\ UNCHANGED backupVars

\* ------------------------------------------------------------------------
\* Archives that were not written by the builder (inputs of restore)
\* ------------------------------------------------------------------------
ForeignMember(name, type) == [name |-> name, type |-> type, data |-> <<"z">>, src |-> <<>>]

ForeignMembers ==
    { ForeignMember(<<"/", "e">>, "file"),
      ForeignMember(<<".", ".", "/", "x">>, "file"),
      ForeignMember(<<"a">>, "dir"),
      ForeignMember(<<"a", "/", "f">>, "file"),
      ForeignMember(<<"n", ".", ".", "t">>, "file") }

ForeignArtifacts ==
    { Gpg(Gz(members), password) : members \in SeqsUpTo(ForeignMembers, MaxMembers) }
        \cup { Gpg([fmt |-> "raw", body |-> <<>>, pw |-> ""], password) }

\* ------------------------------------------------------------------------
\* SpecArchive
\* ------------------------------------------------------------------------
BuilderStart ==
    /\ berr = ""
    /\ dir_idx = 0
    /\ walkq = <<>>
    /\ tar = <<>>
    /\ resolved = {}
    /\ skipped_files = <<>>
    /\ perm_raised = {}
    /\ files_processed = 0
    /\ total_source_size = 0
    /\ bwarn = 0
    /\ compressed = NoFile

RestoreStart ==
    /\ rpc = "init"
    /\ rerr = ""
    /\ decrypted = NoFile
    /\ rtar = <<>>
    /\ ridx = 0
    /\ extracted = {}
    /\ rstaging_dir = FALSE
    /\ rstaging = {}
    /\ dec = NoGpg

\* no backup run against the destination directory
BackupIdle ==
    /\ max_backups = 0
    /\ now = 0
    /\ dest = {}
    /\ pc = "idle"
    /\ err = ""
    /\ run = 0
    /\ staging_dir = FALSE
    /\ staging = {}
    /\ backup_name = <<>>
    /\ rot = "off"
    /\ backups = <<>>
    /\ listed = {}
    /\ attempts = <<>>
    /\ failures = {}
    /\ rot_warnings = 0
    /\ calls_in_row = 0
    /\ prev_failed = FALSE
    /\ trace = <<>>
    /\ comp = NoCompress
    /\ enc = NoGpg

\* a backup of some tree under some configuration, restored afterwards with
\* the same passphrase file
InitBuild ==
    /\ preserve_levels \in 0..MaxLevels
    /\ backup_dirs \in TargetLists
    /\ fs \in Trees
    /\ bpc = "init"
    /\ backup_file = NoFile
    /\ restore_pw = password
    /\ BuilderStart
    /\ RestoreStart
    /\ BackupIdle

\* a restore of an artifact that some other program wrote
InitForeign ==
    /\ preserve_levels = 0
    /\ backup_dirs = <<>>
    /\ fs = {}
    /\ bpc = "off"
    /\ backup_file \in ForeignArtifacts
    /\ restore_pw \in {password, "bad"}
    /\ BuilderStart
    /\ RestoreStart
    /\ BackupIdle

InitArchive == InitBuild \/ InitForeign

NextRestore ==
    \/ R_Start
    \/ R_Decrypt
    \/ R_Decompress
    \/ R_Validate
    \/ R_Extract

NextArchive ==
    \/ A_Open
    \/ A_NextTarget
    \/ A_WalkStep
    \/ A_EndTarget
    \/ A_LogStatistics
    \/ A_Compress
    \/ A_Encrypt
    \/ NextRestore

vars == << archiveVars, backupVars >>

SpecArchive == InitArchive /\ [][NextArchive]_vars

\* ------------------------------------------------------------------------
\* Claims about the resolver, the builder and the extraction (SpecArchive)
\* ------------------------------------------------------------------------
\* the last n elements of s, none for n = 0
LastN(s, n) == SubSeq(s, Len(s) - n + 1, Len(s))

\* the name has a path segment equal to ".."
HasDotDotSegment(name) ==
    Contains(<<"/">> \o name \o <<"/">>, <<"/", ".", ".", "/">>)

\* the name is absolute
IsAbsoluteName(name) == StartsWith(name, <<"/">>)

\* C1: every call get_preserved_path(P, R) with P below R returns exactly the
\* last min(preserve_levels, len(R.parts)) parts of R followed by P relative
\* to R; with preserve_levels = 0 no part of R is prefixed.
C1_PreservedPathIsLastKSegments ==
    \A r \in resolved :
        r.out = LastN(r.root, Min(preserve_levels, Len(r.root)))
                    \o RelativeTo(r.full, r.root)

\* the objects of the tree that lie below a configured target
UnderTargets ==
    {p \in fs : \E i \in 1..Len(backup_dirs) :
                    Len(p) > Len(backup_dirs[i]) /\ IsRelativeTo(p, backup_dirs[i])}

\* the tree below the targets holds only non-excluded directories and
\* readable files
PlainTree ==
    \A p \in UnderTargets :
        ~should_exclude(PathStr(p)) /\ Fault(p) = "none" /\ ~Unreadable(p)

\* the files a round trip has to reproduce: relative path beneath the
\* preserved prefix, and content
FilesBelow(dir_path) ==
    {p \in fs : Kind(p) = "file" /\ Len(p) > Len(dir_path) /\ IsRelativeTo(p, dir_path)}

ExpectedFiles ==
    UNION { { [ name |-> PathStr(LastN(backup_dirs[i],
                                       Min(preserve_levels, Len(backup_dirs[i])))
                                 \o RelativeTo(p, backup_dirs[i])),
                data |-> Data(p) ] : p \in FilesBelow(backup_dirs[i]) } :
            i \in 1..Len(backup_dirs) }

ExtractedFiles ==
    { [name |-> e.name, data |-> e.data] : e \in {x \in extracted : x.type = "file"} }

\* C2: round trip.  For every tree of non-excluded directories and readable
\* files, perform_backup followed by restore with the same passphrase file
\* succeeds, and extract_path then holds exactly the files of the targets,
\* with their contents, beneath the preserved-path prefix.
C2_RoundTrip ==
    (bpc # "off" /\ PlainTree /\ restore_pw = password) =>
        /\ bpc # "failed"
        /\ rpc # "failed"
        /\ (rpc = "done" => ExtractedFiles = ExpectedFiles)

\* some member of the archive under restore is absolute or has a ".." segment
HasUnsafeMember ==
    \E i \in 1..Len(rtar) :
        IsAbsoluteName(rtar[i].name) \/ HasDotDotSegment(rtar[i].name)

\* C3: an archive with a member whose name is absolute or has a
\* parent-traversal segment, wherever the member sits, is rejected with
\* DirectoryError before anything is written to extract_path.
C3_UnsafeArchiveNeverExtracted ==
    HasUnsafeMember =>
        /\ extracted = {}
        /\ rpc \in {"validate", "failed"}
        /\ (rpc = "failed" => rerr = "DirectoryError")

\* C3 witness: the unsafe member is the last of three, the members before it
\* are safe, and the restore has been rejected with nothing written
C3_Witness ==
    /\ rpc = "failed"
    /\ rerr = "DirectoryError"
    /\ Len(rtar) = 3
    /\ ~IsUnsafeName(rtar[1].name)
    /\ ~IsUnsafeName(rtar[2].name)
    /\ HasDotDotSegment(rtar[3].name)
    /\ extracted = {}

\* C4: every directory entry and file entry the builder writes has a name
\* that does not begin with "/" and has no ".." segment.
C4_WrittenNamesAreSafe ==
    \A i \in 1..Len(tar) :
        ~IsAbsoluteName(tar[i].name) /\ ~HasDotDotSegment(tar[i].name)

\* C5: no two distinct source objects are written under the same archive
\* name within one archive.
C5_ArchivePathsUnique ==
    \A i, j \in 1..Len(tar) :
        tar[i].src # tar[j].src => tar[i].name # tar[j].name

\* ------------------------------------------------------------------------
\* The destination directory: names, the glob of the rotator, name order
\* ------------------------------------------------------------------------
\* BackupManager.backup_file_base
backup_file_base == <<"B">>

\* the base name of another BackupManager that writes to the same directory
other_base == <<"B", ".", "x">>

Digits == <<"0", "1", "2", "3", "4", "5", "6", "7", "8", "9">>

\* strftime of the clock: a fixed-width, zero-padded decimal string (two
\* digits stand for the fourteen of %Y%m%d%H%M%S)
Timestamp(t) == <<Digits[((t \div 10) % 10) + 1], Digits[(t % 10) + 1]>>

GzSuffix == <<".", "g", "z">>

GpgSuffix == <<".", "g", "p", "g">>

\* generate_backup_name at clock value t
generate_backup_name(t) == backup_file_base \o <<".">> \o Timestamp(t) \o GzSuffix

\* the name of an encrypted artifact of the given base written at clock t
ArtifactName(base, t) == base \o <<".">> \o Timestamp(t) \o GzSuffix \o GpgSuffix

EndsWith(s, suf) ==
    Len(s) >= Len(suf) /\ SubSeq(s, Len(s) - Len(suf) + 1, Len(s)) = suf

\* fnmatch of a name against f"{self.backup_file_base}.*.gz.gpg"
GlobMatches(name) ==
    /\ StartsWith(name, backup_file_base \o <<".">>)
    /\ EndsWith(name, <<".">> \o Tail(GzSuffix) \o GpgSuffix)
    /\ Len(name) >= Len(backup_file_base) + 1 + Len(GzSuffix) + Len(GpgSuffix)

\* the characters of the names, in code-point order
Alphabet == <<".", "0", "1", "2", "3", "4", "5", "6", "7", "8", "9", "B", "_", "a", "b", "c", "g", "i", "k", "l", "n", "o", "p", "r", "s", "t", "u", "w", "x", "z">>

Rank(c) == CHOOSE i \in 1..Len(Alphabet) : Alphabet[i] = c

\* a < b for strings (and so for paths of one directory)
RECURSIVE StrLess(_, _)
StrLess(a, b) ==
    IF Len(a) = 0 THEN Len(b) > 0
    ELSE IF Len(b) = 0 THEN FALSE
    ELSE IF a[1] = b[1] THEN StrLess(Tail(a), Tail(b))
    ELSE Rank(a[1]) < Rank(b[1])

\* sorted(names, reverse=True): newest first
RECURSIVE SortNames_Descending(_)
SortNames_Descending(S) ==
    IF S = {} THEN <<>>
    ELSE LET m == CHOOSE x \in S : \A y \in S \ {x} : StrLess(y, x)
         IN  <<m>> \o SortNames_Descending(S \ {m})

\* sorted(names)
RECURSIVE SortNames(_)
SortNames(S) ==
    IF S = {} THEN <<>>
    ELSE LET m == CHOOSE x \in S : \A y \in S \ {x} : StrLess(x, y)
         IN  <<m>> \o SortNames(S \ {m})

Entry(name, kind, gen) == [name |-> name, kind |-> kind, gen |-> gen]

\* [b for b in self.dest_dir.glob(pattern) if b.is_file()], as names
MatchingFiles(d) ==
    {e.name : e \in {x \in d : x.kind = "file" /\ GlobMatches(x.name)}}

\* a file is written (created or replaced) under the name
WriteFile(d, name, gen) ==
    {e \in d : e.name # name} \cup {Entry(name, "file", gen)}

\* the entry of the name is unlinked
RemoveFile(d, name) == {e \in d : e.name # name}

NamesOf(d) == {e.name : e \in d}

\* the warning log that setup_logging opens in dest_dir
WarningLog == Entry(<<"b", "a", "c", "k", "u", "p", "_", "w", "a", "r", "n", "i", "n", "g", "s", ".", "l", "o", "g">>, "file", 0)

\* artifacts of earlier runs of this manager
OldArtifacts == {Entry(ArtifactName(backup_file_base, t), "file", 0) : t \in 1..MaxOld}

\* other things the directory may hold: an artifact of the other manager and
\* a directory whose name fits the pattern
OtherEntries ==
    { Entry(ArtifactName(other_base, 1), "file", 0),
      Entry(ArtifactName(backup_file_base, 0), "dir", 0) }

\* ------------------------------------------------------------------------
\* rotate_old_backups
\* ------------------------------------------------------------------------
\* a BackupManager was constructed for the destination directory:
\* setup_logging has opened backup_warnings.log in it
HasManager == WarningLog \in dest

\* a loop that keeps one artifact too many
NeedsDeletion_OffByOne(list) == Len(list) > max_backups + 1

\* a loop that tests its condition after the body (do ... while): every call
\* deletes at least one artifact
NeedsDeletion_DoWhile(list) ==
    Len(list) > max_backups \/ (attempts = <<>> /\ Len(list) > 0)

\* while len(backups) > self.max_backups
NeedsDeletion(list) == Len(list) > max_backups

\* the call starts: the pattern is globbed, filtered and sorted
RotateEnter ==
    /\ rot' = "loop"
    /\ backups' = SortNames(MatchingFiles(dest))
    /\ listed' = MatchingFiles(dest)
    /\ attempts' = <<>>
    /\ failures' = {}
    /\ rot_warnings' = 0
    /\ prev_failed' = (calls_in_row >= 1 /\ failures # {})
    /\ UNCHANGED calls_in_row

\* an iteration whose failed unlink ends the rotation
Rot_Step_AbortOnFailure ==
    /\ rot = "loop"
    /\ Len(backups) > max_backups
    /\ LET oldest == Head(backups)
       IN  /\ backups' = Tail(backups)
           /\ attempts' = Append(attempts, oldest)
           /\ \E ok \in BOOLEAN :
                IF ok
                THEN /\ dest' = RemoveFile(dest, oldest)
                     /\ UNCHANGED << failures, rot_warnings, rot >>
                ELSE /\ failures' = failures \cup {oldest}
                     /\ rot_warnings' = rot_warnings + 1
                     /\ rot' = "returned"
                     /\ UNCHANGED dest
    /\ UNCHANGED << listed, calls_in_row, prev_failed >>
    /\ UNCHANGED << max_backups, now >>
    /\ UNCHANGED runVars
    /\ UNCHANGED archiveVars

\* one iteration of the while loop: oldest = backups.pop(0), and the unlink
\* of it either succeeds or raises, which is logged as a warning
Rot_Step ==
    /\ rot = "loop"
    /\ NeedsDeletion(backups)
    /\ LET oldest == Head(backups)
       IN  /\ backups' = Tail(backups)
           /\ IF oldest \in NamesOf(dest)
              THEN /\ attempts' = Append(attempts, oldest)
                   /\ \E ok \in BOOLEAN :
                        IF ok
                        THEN /\ dest' = RemoveFile(dest, oldest)
                             /\ UNCHANGED << failures, rot_warnings >>
                        ELSE /\ failures' = failures \cup {oldest}
                             /\ rot_warnings' = rot_warnings + 1
                             /\ UNCHANGED dest
              ELSE UNCHANGED << attempts, dest, failures, rot_warnings >>
    /\ UNCHANGED << rot, listed, calls_in_row, prev_failed >>
    /\ UNCHANGED << max_backups, now >>
    /\ UNCHANGED runVars
    /\ UNCHANGED archiveVars

\* the loop condition is false: the call returns
Rot_Return ==
    /\ rot = "loop"
    /\ ~NeedsDeletion(backups)
    /\ rot' = "returned"
    /\ calls_in_row' = calls_in_row + 1
    /\ UNCHANGED << backups, listed, attempts, failures, rot_warnings,
                    prev_failed >>
    /\ UNCHANGED << max_backups, now, dest >>
    /\ UNCHANGED runVars
    /\ UNCHANGED archiveVars

\* rotate_old_backups called on its own, between runs
Rot_CallDirect ==
    /\ HasManager
    /\ pc \in {"idle", "done", "failed"}
    /\ rot # "loop"
    /\ calls_in_row < MaxDirect
    /\ RotateEnter
    /\ UNCHANGED << max_backups, now, dest >>
    /\ UNCHANGED runVars
    /\ UNCHANGED archiveVars

\* ------------------------------------------------------------------------
\* perform_backup
\* ------------------------------------------------------------------------
\* an exception leaves the with block (the staging directory is removed) and
\* is caught and wrapped in BackupError, which is raised.  events are the
\* stage starts that precede the exception in this step.
RunFails(cause, events) ==
    /\ pc' = "failed"
    /\ err' = cause
    /\ staging_dir' = FALSE
    /\ staging' = {}
    /\ trace' = trace \o events \o <<"BackupError">>

\* with tempfile.TemporaryDirectory() as temp_dir
P_Start ==
    /\ HasManager
    /\ pc \in {"idle", "done", "failed"}
    /\ rot # "loop"
    /\ run < MaxRuns
    /\ run' = run + 1
    /\ pc' = "archiving"
    /\ err' = ""
    /\ staging_dir' = TRUE
    /\ staging' = {}
    /\ backup_name' = <<>>
    /\ trace' = <<>>
    /\ comp' = NoCompress
    /\ enc' = NoGpg
    \* the locals of an earlier rotate_old_backups call are gone, and a call
    \* after this run does not follow the earlier call immediately
    /\ rot' = "off"
    /\ backups' = <<>>
    /\ listed' = {}
    /\ attempts' = <<>>
    /\ failures' = {}
    /\ rot_warnings' = 0
    /\ calls_in_row' = 0
    /\ prev_failed' = FALSE
    /\ UNCHANGED << max_backups, now, dest >>
    /\ UNCHANGED archiveVars

\* stage 1: create_tar_archive writes backup.tar or raises
P_Archive ==
    /\ pc = "archiving"
    /\ \E outcome \in {"ok", "DirectoryError", "ZeroDivisionError"} :
         IF outcome = "ok"
         THEN /\ staging' = staging \cup {"backup.tar"}
              /\ pc' = "compressing"
              /\ trace' = Append(trace, "Archiving")
              /\ UNCHANGED << err, staging_dir >>
         ELSE RunFails(outcome, <<"Archiving">>)
    /\ UNCHANGED << run, backup_name, comp, enc, max_backups, now, dest >>
    /\ UNCHANGED rotVars
    /\ UNCHANGED archiveVars

\* a stage 2 that leaves backup.tar in the staging directory
P_Compress_KeepTar ==
    /\ pc = "compressing"
    /\ \E pigz_out \in PigzOutcomes, gzip_out \in GzipOutcomes :
         LET c == compress_file(pigz_out, gzip_out)
         IN  /\ comp' = c
             /\ IF ~c.raised
                THEN /\ staging' = staging \cup {"backup.tar.gz"}
                     /\ pc' = "copying"
                     /\ trace' = Append(trace, "Compressing")
                     /\ UNCHANGED << err, staging_dir >>
                ELSE RunFails("CompressionError", <<"Compressing">>)
    /\ UNCHANGED << run, backup_name, enc, max_backups, now, dest >>
    /\ UNCHANGED rotVars
    /\ UNCHANGED archiveVars

\* a stage 2 that tries compress_file again after it raised
P_Compress_Retry ==
    /\ pc = "compressing"
    /\ \E pigz_out \in PigzOutcomes, gzip_out \in GzipOutcomes :
         LET c == compress_file(pigz_out, gzip_out)
         IN  /\ comp' = c
             /\ trace' = Append(trace, "Compressing")
             /\ IF ~c.raised
                THEN /\ staging' = (staging \cup {"backup.tar.gz"}) \ {"backup.tar"}
                     /\ pc' = "copying"
                ELSE UNCHANGED << staging, pc >>
             /\ UNCHANGED << err, staging_dir >>
    /\ UNCHANGED << run, backup_name, enc, max_backups, now, dest >>
    /\ UNCHANGED rotVars
    /\ UNCHANGED archiveVars

\* stage 2: compress_file writes backup.tar.gz or raises; then
\* tar_path.unlink()
P_Compress ==
    /\ pc = "compressing"
    /\ \E pigz_out \in PigzOutcomes, gzip_out \in GzipOutcomes :
         LET c == compress_file(pigz_out, gzip_out)
         IN  /\ comp' = c
             /\ IF ~c.raised
                THEN /\ staging' = (staging \cup {"backup.tar.gz"}) \ {"backup.tar"}
                     /\ pc' = "copying"
                     /\ trace' = Append(trace, "Compressing")
                     /\ UNCHANGED << err, staging_dir >>
                ELSE RunFails("CompressionError", <<"Compressing">>)
    /\ UNCHANGED << run, backup_name, enc, max_backups, now, dest >>
    /\ UNCHANGED rotVars
    /\ UNCHANGED archiveVars

\* stage 3: backup_name = self.generate_backup_name(), and
\* shutil.copy2(compressed_path, final_path).  The locals of compress_file
\* are gone.
P_Copy ==
    /\ pc = "copying"
    /\ backup_name' = generate_backup_name(now)
    /\ dest' = WriteFile(dest, generate_backup_name(now), run)
    /\ pc' = "encrypting"
    /\ trace' = Append(trace, "Encrypting")
    /\ comp' = NoCompress
    /\ UNCHANGED << err, run, staging_dir, staging, enc, max_backups, now >>
    /\ UNCHANGED rotVars
    /\ UNCHANGED archiveVars

\* a stage 3 that does not look at what encrypt_file did
P_Encrypt_IgnoreFailure ==
    /\ pc = "encrypting"
    /\ \E g \in GpgRuns :
         /\ enc' = encrypt_file(g)
         /\ IF g.ran /\ g.rc = 0
            THEN dest' = WriteFile(dest, backup_name \o GpgSuffix, run)
            ELSE UNCHANGED dest
         /\ pc' = "unlinking"
         /\ UNCHANGED << err, staging_dir, staging, trace >>
    /\ UNCHANGED << run, backup_name, comp, max_backups, now >>
    /\ UNCHANGED rotVars
    /\ UNCHANGED archiveVars

\* stage 3: encrypt_file: gpg --yes -c writes final_path + '.gpg' and exits
\* with 0, or EncryptionError is raised
P_Encrypt ==
    /\ pc = "encrypting"
    /\ \E g \in GpgRuns :
         LET e == encrypt_file(g)
         IN  /\ enc' = e
             /\ IF g.ran /\ g.rc = 0
                THEN dest' = WriteFile(dest, backup_name \o GpgSuffix, run)
                ELSE UNCHANGED dest
             /\ IF e.result = "True"
                THEN /\ pc' = "unlinking"
                     /\ UNCHANGED << err, staging_dir, staging, trace >>
                ELSE RunFails("EncryptionError", <<>>)
    /\ UNCHANGED << run, backup_name, comp, max_backups, now >>
    /\ UNCHANGED rotVars
    /\ UNCHANGED archiveVars

\* a stage 3 that leaves the unencrypted file in the destination
P_Unlink_Skip ==
    /\ pc = "unlinking"
    /\ pc' = "rotate"
    /\ enc' = NoGpg
    /\ UNCHANGED << err, run, staging_dir, staging, backup_name, trace, comp,
                    max_backups, now, dest >>
    /\ UNCHANGED rotVars
    /\ UNCHANGED archiveVars

\* stage 3: final_path.unlink().  The locals of encrypt_file are gone.
P_Unlink ==
    /\ pc = "unlinking"
    /\ dest' = RemoveFile(dest, backup_name)
    /\ pc' = "rotate"
    /\ enc' = NoGpg
    /\ UNCHANGED << err, run, staging_dir, staging, backup_name, trace, comp,
                    max_backups, now >>
    /\ UNCHANGED rotVars
    /\ UNCHANGED archiveVars

\* stage 4: self.rotate_old_backups() is called
P_Rotate ==
    /\ pc = "rotate"
    /\ pc' = "rotating"
    /\ trace' = Append(trace, "Rotating")
    /\ RotateEnter
    /\ UNCHANGED << err, run, staging_dir, staging, backup_name, comp, enc,
                    max_backups, now, dest >>
    /\ UNCHANGED archiveVars

\* rotate_old_backups has returned: return True, leaving the with block
P_Finish ==
    /\ pc = "rotating"
    /\ rot = "returned"
    /\ pc' = "done"
    /\ staging_dir' = FALSE
    /\ staging' = {}
    /\ trace' = Append(trace, "True")
    /\ UNCHANGED << err, run, backup_name, comp, enc, max_backups, now, dest >>
    /\ UNCHANGED rotVars
    /\ UNCHANGED archiveVars

\* a second passes.  The clock is read only by generate_backup_name, so the
\* seconds that pass during a run are counted before or after it.
Tick ==
    /\ HasManager
    /\ pc \in {"idle", "done", "failed"}
    /\ rot # "loop"
    /\ now < MaxOld + MaxTicks
    /\ now' = now + 1
    /\ UNCHANGED << max_backups, dest >>
    /\ UNCHANGED runVars
    /\ UNCHANGED rotVars
    /\ UNCHANGED archiveVars

\* ------------------------------------------------------------------------
\* SpecBackup
\* ------------------------------------------------------------------------
ArchiveIdle ==
    /\ preserve_levels = 0
    /\ backup_dirs = <<>>
    /\ fs = {}
    /\ bpc = "off"
    /\ backup_file = NoFile
    /\ restore_pw = password
    /\ BuilderStart
    /\ RestoreStart

InitBackup ==
    /\ max_backups \in 0..MaxKeep
    /\ now = MaxOld
    /\ \E old \in SUBSET OldArtifacts, others \in SUBSET OtherEntries :
         dest = {WarningLog} \cup old \cup others
    /\ pc = "idle"
    /\ err = ""
    /\ run = 0
    /\ staging_dir = FALSE
    /\ staging = {}
    /\ backup_name = <<>>
    /\ rot = "off"
    /\ backups = <<>>
    /\ listed = {}
    /\ attempts = <<>>
    /\ failures = {}
    /\ rot_warnings = 0
    /\ calls_in_row = 0
    /\ prev_failed = FALSE
    /\ trace = <<>>
    /\ comp = NoCompress
    /\ enc = NoGpg
    /\ ArchiveIdle

NextBackup ==
    \/ P_Start
    \/ P_Archive
    \/ P_Compress
    \/ P_Copy
    \/ P_Encrypt
    \/ P_Unlink
    \/ P_Rotate
    \/ Rot_Step
    \/ Rot_Return
    \/ P_Finish
    \/ Rot_CallDirect
    \/ Tick

SpecBackup == InitBackup /\ [][NextBackup]_vars

\* ------------------------------------------------------------------------
\* SpecPipelines: the two pipelines side by side, backup runs against a
\* destination directory and restores of artifacts
\* ------------------------------------------------------------------------
InitPipelines == InitBackup \/ InitForeign

NextPipelines == NextBackup \/ NextRestore

SpecPipelines == InitPipelines /\ [][NextPipelines]_vars

\* ------------------------------------------------------------------------
\* Claims about rotation and the destination directory (SpecBackup)
\* ------------------------------------------------------------------------
Max0(x) == IF x > 0 THEN x ELSE 0

\* the n names of S that are smallest, and largest, in name order
SmallestN(S, n) == {x \in S : Cardinality({y \in S : StrLess(y, x)}) < n}

LargestN(S, n) == {x \in S : Cardinality({y \in S : StrLess(x, y)}) < n}

Attempted == {attempts[i] : i \in 1..Len(attempts)}

Surplus == Max0(Cardinality(listed) - max_backups)

\* C6 as stated: with M > max_backups matching files, after the call returns
\* exactly the M - max_backups smallest names are gone and the max_backups
\* largest remain.
C6_RotationRemovesOldest ==
    (rot = "returned" /\ Cardinality(listed) > max_backups) =>
        MatchingFiles(dest) = LargestN(listed, max_backups)

\* C6 amended: with M > max_backups matching files, after the call returns
\* the unlink of exactly the M - max_backups smallest names was attempted,
\* each of them is gone unless its unlink raised, and the max_backups largest
\* remain.
C6_RotationAttemptsOldest ==
    (rot = "returned" /\ Cardinality(listed) > max_backups) =>
        /\ Attempted = SmallestN(listed, Surplus)
        /\ failures \subseteq Attempted
        /\ MatchingFiles(dest) = LargestN(listed, max_backups) \cup failures

\* C6 witness: a rotation over three artifacts with one to keep has returned;
\* one unlink raised and one succeeded
C6_Witness ==
    /\ rot = "returned"
    /\ max_backups = 1
    /\ Cardinality(listed) = 3
    /\ Cardinality(failures) = 1
    /\ Cardinality(MatchingFiles(dest)) = 2

\* what a step may do to an artifact: nothing, or remove it inside
\* rotate_old_backups while it is not among the max_backups largest names
C7_StepKeepsArtifacts ==
    \A e \in {x \in dest : x.kind = "file" /\ GlobMatches(x.name)} :
        \/ e \in dest'
        \/ /\ e.name \notin NamesOf(dest')
           /\ rot = "loop"
           /\ e.name \notin LargestN(MatchingFiles(dest), max_backups)

\* C7: a completed artifact is never modified or replaced, and is removed only
\* by rotate_old_backups and only while it is not among the max_backups most
\* recent artifacts by name order.
C7_ArtifactsImmutable == [][C7_StepKeepsArtifacts]_vars

\* C8 as stated: after rotate_old_backups returns at most max_backups
\* matching regular files exist.
C8_AtMostMaxBackups ==
    rot = "returned" => Cardinality(MatchingFiles(dest)) <= max_backups

\* C8 amended: after rotate_old_backups returns the number of matching
\* regular files is at most max_backups plus the number of unlinks that
\* raised in that call.
C8_AtMostMaxBackupsPlusFailures ==
    rot = "returned" =>
        Cardinality(MatchingFiles(dest)) <= max_backups + Cardinality(failures)

\* C8 witness: a successful run whose rotation had artifacts to delete, none
\* of the unlinks raised, and max_backups artifacts are left
C8_Witness ==
    /\ pc = "done"
    /\ rot = "returned"
    /\ Cardinality(listed) >= max_backups + 2
    /\ failures = {}
    /\ max_backups = 1
    /\ Cardinality(MatchingFiles(dest)) = 1

C10_DeletionIsBestEffort ==
    /\ rot_warnings = Cardinality(failures)
    /\ failures \subseteq Attempted
    /\ Len(attempts) <= Surplus
    /\ rot = "returned" => Len(attempts) = Surplus
    /\ rot \in {"off", "loop", "returned"}
    /\ pc = "rotating" => err = ""

\* C10 witness: the first unlink of a call raised, and a later one was
\* attempted and succeeded before the call returned
C10_Witness ==
    /\ rot = "returned"
    /\ Len(attempts) >= 2
    /\ attempts[1] \in failures
    /\ attempts[2] \notin failures
    /\ attempts[2] \notin NamesOf(dest)
    /\ rot_warnings = 1

\* ------------------------------------------------------------------------
\* Claims about the course of a run (SpecBackup)
\* ------------------------------------------------------------------------
Stages == <<"Archiving", "Compressing", "Encrypting", "Rotating">>

IsPrefix(p, q) == Len(p) <= Len(q) /\ \A i \in 1..Len(p) : p[i] = q[i]

\* the stage starts of a trace
StagesOf(t) == SelectSeq(t, LAMBDA ev : ev \notin {"True", "BackupError"})

\* how often the call delivered ev
Count(t, ev) == Cardinality({i \in 1..Len(t) : t[i] = ev})

Last(t) == IF t = <<>> THEN "" ELSE t[Len(t)]

Causes ==
    {"DirectoryError", "ZeroDivisionError", "CompressionError", "EncryptionError"}

\* C11: the stages of a run start in the order Archiving, Compressing,
\* Encrypting, Rotating, each at most once and only while no stage has
\* failed; after a failure nothing else starts and the run does not end
\* with True.
C11_StagesLinearNoRetry ==
    /\ IsPrefix(StagesOf(trace), Stages)
    /\ \A i \in 1..Len(trace) :
         trace[i] \in {"True", "BackupError"} => i = Len(trace)
    /\ (pc = "failed") = (Last(trace) = "BackupError")
    /\ (pc = "done") = (Last(trace) = "True")
    /\ Last(trace) = "True" => StagesOf(trace) = Stages
    /\ err # "" => pc = "failed"
    /\ pc = "compressing" => StagesOf(trace) = <<"Archiving">>
    /\ pc = "copying" => StagesOf(trace) = <<"Archiving", "Compressing">>
    /\ pc \in {"encrypting", "unlinking", "rotate"} =>
         StagesOf(trace) = <<"Archiving", "Compressing", "Encrypting">>
    /\ pc = "rotating" => trace = Stages

\* C11 witness: a run that failed in its third stage, with the fourth never
\* started
C11_Witness ==
    /\ pc = "failed"
    /\ err = "EncryptionError"
    /\ trace = <<"Archiving", "Compressing", "Encrypting", "BackupError">>

\* C12: the call returns True only after all four stages went through
\* without an error, and a failure of compress_file, of encrypt_file or of
\* the builder makes it raise BackupError once, around that cause, and
\* never return True.
C12_TrueOnlyIfAllStagesSucceed ==
    /\ Count(trace, "True") > 0 =>
         /\ trace = Stages \o <<"True">>
         /\ err = ""
         /\ Count(trace, "BackupError") = 0
    /\ err # "" =>
         /\ err \in Causes
         /\ Count(trace, "BackupError") = 1
         /\ Count(trace, "True") = 0
    /\ Count(trace, "BackupError") > 0 => err # ""
    /\ comp.raised => err = "CompressionError"
    /\ enc.result = "EncryptionError" => err = "EncryptionError"

\* C12 witness: the second run returned True after the first one raised
C12_Witness ==
    /\ pc = "done"
    /\ run = 2
    /\ trace = Stages \o <<"True">>
    /\ err = ""

\* ------------------------------------------------------------------------
\* Claims about both pipelines (SpecPipelines)
\* ------------------------------------------------------------------------
\* C13: perform_backup and restore each start with a staging directory that
\* is new and empty, and when the call has returned or raised, on every
\* path, the staging directory and backup.tar, backup.tar.gz, backup.gz in
\* it are gone.
C13_StagingGoneOnEveryExit ==
    /\ pc \in {"idle", "done", "failed"} => ~staging_dir /\ staging = {}
    /\ pc \notin {"idle", "done", "failed"} =>
         staging_dir /\ staging \subseteq {"backup.tar", "backup.tar.gz"}
    /\ pc = "archiving" => staging = {}
    /\ rpc \in {"init", "done", "failed"} => ~rstaging_dir /\ rstaging = {}
    /\ rpc \notin {"init", "done", "failed"} =>
         rstaging_dir /\ rstaging \subseteq {"backup.gz", "backup.tar"}
    /\ rpc = "decrypt" => rstaging = {}

\* C13 witness: a restore that raised in its third stage, after backup.gz
\* and backup.tar had been written
C13_Witness ==
    /\ rpc = "failed"
    /\ rerr = "DirectoryError"
    /\ decrypted # NoFile
    /\ rtar # <<>>
    /\ ~rstaging_dir
    /\ rstaging = {}

\* C14: the unencrypted {name}.gz is written first and encrypted into
\* {name}.gz.gpg beside it, and once the Encrypting stage is over, from
\* before the rotation starts on, the destination does not hold the two of
\* one run together: the unencrypted one is gone.
C14_NoPlaintextBesideArtifact ==
    /\ pc = "encrypting" =>
         /\ backup_name \in NamesOf(dest)
         /\ Entry(backup_name, "file", run) \in dest
    /\ pc = "unlinking" =>
         /\ Entry(backup_name, "file", run) \in dest
         /\ Entry(backup_name \o GpgSuffix, "file", run) \in dest
    /\ pc \in {"rotate", "rotating", "done"} =>
         /\ backup_name \notin NamesOf(dest)
         /\ ~(\E e1, e2 \in dest :
                /\ e1.gen = run /\ e2.gen = run
                /\ e2.name = e1.name \o GpgSuffix)

\* C14 witness: the rotation is about to start, and of the run's two files
\* only the encrypted one is in the destination
C14_Witness ==
    /\ pc = "rotate"
    /\ Entry(backup_name \o GpgSuffix, "file", run) \in dest
    /\ backup_name \notin NamesOf(dest)

\* C15: backup.tar is in the staging directory while compress_file works
\* and is gone from it, with backup.tar.gz in its place, before the
\* Encrypting stage starts and all the time encrypt_file runs.
C15_NoTarWhileEncrypting ==
    /\ pc = "compressing" => staging = {"backup.tar"}
    /\ pc \in {"copying", "encrypting", "unlinking", "rotate", "rotating"} =>
         staging = {"backup.tar.gz"}
    /\ "Encrypting" \in {trace[i] : i \in 1..Len(trace)} =>
         "backup.tar" \notin staging

\* C15 witness: the Encrypting stage is about to start after a compression
\* that went through the fallback
C15_Witness ==
    /\ pc = "copying"
    /\ comp.gzip = "ok"
    /\ staging = {"backup.tar.gz"}

\* an artifact of the destination is gone after the step
ArtifactRemoved == \E n \in MatchingFiles(dest) : n \notin NamesOf(dest')

\* C16: perform_backup calls rotate_old_backups only when encrypt_file has
\* written the artifact of the run, and in a run no artifact is deleted
\* but by that call: a run that fails in archiving, compression or
\* encryption has attempted no deletion.
C16_RotationOnlyAfterEncryption ==
    /\ [](pc = "failed" /\ rot = "off" => attempts = <<>>)
    /\ [][ /\ (pc = "rotate" /\ pc' = "rotating") =>
                /\ (backup_name \o GpgSuffix) \in listed'
                /\ Entry(backup_name \o GpgSuffix, "file", run) \in dest
                /\ err = ""
           /\ (pc \notin {"idle", "done", "failed"} /\ ArtifactRemoved) =>
                /\ pc = "rotating"
                /\ rot = "loop"
                /\ trace = Stages
                /\ err = ""
                /\ (backup_name \o GpgSuffix) \in listed
           /\ (pc' = "failed" /\ pc # "failed") => ~ArtifactRemoved ]_vars

\* C16 witness: a run failed in encrypt_file while the destination held
\* more artifacts than max_backups, and they are all still there
C16_Witness ==
    /\ pc = "failed"
    /\ err = "EncryptionError"
    /\ rot = "off"
    /\ Cardinality(MatchingFiles(dest)) > max_backups
    /\ OldArtifacts \subseteq dest

\* ------------------------------------------------------------------------
\* Claims about failures inside the builder (SpecArchive)
\* ------------------------------------------------------------------------
\* the files of the targets that are not excluded and can be read
ReadableFiles ==
    {p \in UnderTargets :
        Kind(p) = "file" /\ Fault(p) = "none" /\ ~should_exclude(PathStr(p))}

\* nothing below the targets raises anything but PermissionError
NoHardFault == \A p \in UnderTargets : Fault(p) # "other"

\* something below the targets raises PermissionError
SomePermFault == \E p \in UnderTargets : Fault(p) = "perm" \/ Unreadable(p)

\* C17: a file or directory whose access raises PermissionError is recorded
\* in skipped_files and a warning is logged for it; when nothing worse
\* happens the run does not fail, and every other file of the targets that
\* is readable and not excluded is a member of the archive.
C17_PermissionFailureNotFatal ==
    /\ perm_raised \subseteq SeqToSet(skipped_files)
    /\ bwarn >= Cardinality(perm_raised)
    /\ (NoHardFault /\ SomePermFault) => bpc # "failed"
    /\ (NoHardFault /\ SomePermFault /\ bpc \in {"archived", "compressed", "done"}) =>
         \A p \in ReadableFiles :
            \E i \in 1..Len(tar) : tar[i].type = "file" /\ tar[i].src = p

\* tar.add of a file raised something that is not a PermissionError
HardFaultHit == \E r \in resolved : Fault(r.full) = "other"

C19_CompressionFallback ==
    /\ comp.pigz = "ok" => comp.gzip = "untried" /\ ~comp.raised
    /\ comp.pigz \in {"nonzero", "absent"} =>
         comp.gzip \in GzipOutcomes /\ comp.level = GzipLevel
    /\ (comp.pigz \in {"nonzero", "absent"} /\ comp.gzip = "ok") =>
         /\ ~comp.raised
         /\ pc = "copying"
         /\ "backup.tar.gz" \in staging
    /\ comp.raised =>
         /\ comp.pigz \in PigzOutcomes \ {"ok"}
         /\ comp.gzip = "failed"
    /\ comp.raised => pc = "failed" /\ err = "CompressionError"

\* what holds of one call of encrypt_file or decrypt_file in which gpg ran
ExitCodeDecides(r) ==
    /\ (r.ran /\ r.rc = 0) => r.result = "True"
    /\ (r.ran /\ r.rc # 0) => r.result = "EncryptionError"
    /\ r.warned = (r.ran /\ r.stderr)
    /\ r.result = "True" => r.ran /\ r.rc = 0

\* an EncryptionError of either call fails the run it belongs to, and a
\* call that returned True lets it go on
GpgResultPropagates ==
    /\ enc.result = "EncryptionError" => pc = "failed" /\ err = "EncryptionError"
    /\ dec.result = "EncryptionError" => rpc = "failed" /\ rerr = "EncryptionError"
    /\ enc.result = "True" =>
         /\ pc = "unlinking"
         /\ Entry(backup_name \o GpgSuffix, "file", run) \in dest
    /\ dec.result = "True" => rpc = "decompress" /\ "backup.gz" \in rstaging

\* C20: in encrypt_file and decrypt_file nothing but a non-zero exit code of
\* gpg is a failure: exit code 0 returns True, also when gpg wrote to
\* stderr (that is logged as a warning and nothing more), a non-zero exit
\* code raises EncryptionError, the run fails on it, and no call raises
\* without a non-zero exit code.
C20_OnlyNonZeroExitFails ==
    /\ ExitCodeDecides(enc)
    /\ ExitCodeDecides(dec)
    /\ GpgResultPropagates
    /\ enc.result = "EncryptionError" => enc.ran /\ enc.rc # 0
    /\ dec.result = "EncryptionError" => dec.ran /\ dec.rc # 0

\* C20, amended: whenever gpg ran, its exit code alone decides: 0 returns
\* True whatever it wrote to stderr (logged as a warning), non-zero raises
\* EncryptionError; a gpg that could not be started raises EncryptionError
\* as well; and every EncryptionError fails the run.
C20_ExitCodeDecidesWhenGpgRan ==
    /\ ExitCodeDecides(enc)
    /\ ExitCodeDecides(dec)
    /\ GpgResultPropagates
    /\ enc.result = "EncryptionError" => ~enc.ran \/ enc.rc # 0
    /\ dec.result = "EncryptionError" => ~dec.ran \/ dec.rc # 0

\* C20 witness: gpg exited with 0 and wrote to stderr; encrypt_file logged a
\* warning, returned True, and the run goes on with the artifact written
C20_Witness ==
    /\ enc.ran
    /\ enc.rc = 0
    /\ enc.stderr
    /\ enc.warned
    /\ enc.result = "True"
    /\ pc = "unlinking"
    /\ Entry(backup_name \o GpgSuffix, "file", run) \in dest

\* ------------------------------------------------------------------------
\* Claims about restore (SpecArchive)
\* ------------------------------------------------------------------------
\* the steps restore can take from one position to the next
RestoreEdges ==
    { <<"init", "decrypt">>,
      <<"decrypt", "decompress">>, <<"decrypt", "failed">>,
      <<"decompress", "validate">>, <<"decompress", "failed">>,
      <<"validate", "extract">>, <<"validate", "failed">>,
      <<"extract", "done">> }

\* the artifact is one that gpg opens with the passphrase file
Decryptable == backup_file.fmt = "gpg" /\ backup_file.pw = restore_pw

\* C21: restore goes through Decrypting, Decompressing, Extracting in that
\* order, each stage only after the one before it succeeded; nothing is
\* written under extract_path when decryption or decompression failed; a bad
\* passphrase, a corrupt stream and an unsafe path each make it raise once
\* (RestoreError around the cause) and never return True.
C21_RestoreLinear ==
    /\ [](/\ (rpc = "failed") = (rerr # "")
          /\ rerr \in {"", "EncryptionError", "CompressionError", "DirectoryError"}
          /\ rpc \in {"decompress", "validate", "extract", "done"} => Decryptable
          /\ rpc \in {"validate", "extract", "done"} => decrypted.fmt = "gz"
          /\ rpc \in {"extract", "done"} => ~HasUnsafeMember
          /\ extracted # {} => rpc \in {"extract", "done"}
          /\ rerr \in {"EncryptionError", "CompressionError"} => extracted = {}
          /\ (rpc \notin {"init", "decrypt"} /\ ~Decryptable) =>
                rpc = "failed" /\ rerr = "EncryptionError"
          /\ (rpc \notin {"init", "decrypt", "decompress"} /\ Decryptable
              /\ backup_file.body.fmt # "gz") =>
                rpc = "failed" /\ rerr \in {"EncryptionError", "CompressionError"})
    /\ [][ /\ rpc' # rpc => <<rpc, rpc'>> \in RestoreEdges
           /\ rpc = "failed" => rpc' = "failed" /\ rerr' = rerr
           /\ rpc = "done" => rpc' = "done"
           /\ rerr' # rerr => rpc' = "failed" /\ rpc # "failed" ]_vars

\* C21 witness: the decrypted stream was not a gzip stream, restore raised,
\* and nothing was extracted
C21_Witness ==
    /\ rpc = "failed"
    /\ rerr = "CompressionError"
    /\ Decryptable
    /\ extracted = {}

\* ------------------------------------------------------------------------
\* Claims about what the builder leaves out (SpecArchive)
\* ------------------------------------------------------------------------
\* the objects a member was written for
Written == {tar[i].src : i \in 1..Len(tar)}

\* the path string of p or of a directory between the target and p holds an
\* exclusion pattern
ExcludedBelow(p, dir_path) ==
    \E n \in (Len(dir_path) + 1)..Len(p) :
        \E pattern \in exclude_patterns :
            Contains(PathStr(SubSeq(p, 1, n)), pattern)

\* C22: exclusion is substring containment on the path string, for
\* directories and for files: once the archive is complete, an object below
\* a target has a member in it exactly if neither its own path string nor
\* that of a directory between the target and it holds an exclusion
\* pattern, and (for a file) it can be read.
C22_ExclusionIsSubstringContainment ==
    /\ \A p \in Written :
         /\ p \in UnderTargets
         /\ Fault(p) = "none"
         /\ \A i \in 1..Len(backup_dirs) :
               IsRelativeTo(p, backup_dirs[i]) => ~ExcludedBelow(p, backup_dirs[i])
    /\ bpc \in {"archived", "compressed", "done"} =>
         \A i \in 1..Len(backup_dirs) :
            \A p \in fs :
               (/\ Len(p) > Len(backup_dirs[i])
                /\ IsRelativeTo(p, backup_dirs[i])
                /\ ~ExcludedBelow(p, backup_dirs[i])
                /\ Fault(p) = "none") => p \in Written

\* C22 witness: a complete archive of a target that holds an excluded
\* directory, which has no member, beside a file that has one
C22_Witness ==
    /\ bpc = "archived"
    /\ \E p \in UnderTargets :
         /\ Kind(p) = "dir"
         /\ should_exclude(PathStr(p))
         /\ p \notin Written
    /\ \E p \in Written : Kind(p) = "file" /\ Parent(p) = T_da

\* C23: no member is ever written for a directory named .git or
\* __pycache__, or for a file whose name ends in .pyc or .pyo.
C23_NoMetadataOrBytecode ==
    \A p \in Written :
        /\ Name(p) # Seg_git
        /\ Name(p) # <<"_", "_", "p", "y", "c", "a", "c", "h", "e", "_", "_">>
        /\ ~EndsWith(Name(p), <<".", "p", "y", "c">>)
        /\ ~EndsWith(Name(p), <<".", "p", "y", "o">>)

\* ------------------------------------------------------------------------
\* Claims about the artifacts of successive runs (SpecBackup)
\* ------------------------------------------------------------------------
\* C24: when perform_backup has returned True and max_backups >= 1, the
\* destination holds the encrypted artifact of that run under the name of
\* its timestamp; and the artifact a run writes is a new one, beside those
\* that are there, also when the run before it started in the same second.
C24_EachRunLeavesItsArtifact ==
    /\ []((pc = "done" /\ max_backups >= 1) =>
            /\ backup_name \in {generate_backup_name(t) : t \in 0..now}
            /\ Entry(backup_name \o GpgSuffix, "file", run) \in dest)
    /\ [][(pc = "encrypting" /\ pc' = "unlinking") =>
            /\ (backup_name \o GpgSuffix) \notin NamesOf(dest)
            /\ Cardinality(MatchingFiles(dest')) = Cardinality(MatchingFiles(dest)) + 1
         ]_vars

\* ------------------------------------------------------------------------
\* Claims about the summary of the builder (SpecArchive)
\* ------------------------------------------------------------------------
\* C25: a run that has counted no source byte (no targets, only missing
\* targets, only directories, only empty files) gets through the Archiving
\* stage, summary included, without an error.
C25_EmptyBackupSucceeds ==
    (total_source_size = 0 /\ dir_idx > Len(backup_dirs)
     /\ bpc \notin {"init", "target"}) =>
        /\ bpc \in {"archived", "compressed", "done"}
        /\ berr = ""

\* ------------------------------------------------------------------------
\* Claims about what a failed run leaves behind (SpecBackup)
\* ------------------------------------------------------------------------
\* C26: when encrypt_file has failed, the destination holds neither the
\* unencrypted {name}.gz of the run nor a .gpg file written by it: nothing
\* in the destination is of the failed run.
C26_FailedEncryptionLeavesNothing ==
    (pc = "failed" /\ err = "EncryptionError") =>
        /\ ~(\E e \in dest : e.name = backup_name /\ e.gen = run)
        /\ ~(\E e \in dest : e.name = backup_name \o GpgSuffix /\ e.gen = run)
        /\ \A e \in dest : e.gen # run

\* ------------------------------------------------------------------------
\* Claims about the frame of the rotation (SpecBackup)
\* ------------------------------------------------------------------------
\* names of the form {backup_file_base}.{timestamp}.gz.gpg
OwnNames == {ArtifactName(backup_file_base, t) : t \in 0..(MaxOld + MaxTicks)}

\* an entry the rotation of this manager has to leave alone
IsForeignEntry(e) == e.kind # "file" \/ e.name \notin OwnNames

\* C27: rotate_old_backups counts and deletes only regular files named
\* {backup_file_base}.{timestamp}.gz.gpg; directories, the warning log,
\* unencrypted .gz files and artifacts of another base, a base of the form
\* B.x among them, are not counted towards max_backups and stay as they
\* are.
C27_RotationFrame ==
    /\ [](listed \subseteq OwnNames)
    /\ [][rot = "loop" =>
            \A e \in dest : IsForeignEntry(e) => e \in dest']_vars

\* ------------------------------------------------------------------------
\* Claims about the validation of member names (SpecArchive)
\* ------------------------------------------------------------------------
\* C28: extract_tar raises for an unsafe path only when a member name is
\* absolute or has a segment equal to '..'; an archive whose names are all
\* relative and free of such a segment (a file named n..t, say) gets
\* through the validation and is extracted.
C28_OnlyUnsafeNamesRejected ==
    /\ rerr = "DirectoryError" => HasUnsafeMember
    /\ (rpc = "failed" /\ rtar # <<>>) => HasUnsafeMember

\* ------------------------------------------------------------------------
\* Claims about targets that do not exist (SpecArchive)
\* ------------------------------------------------------------------------
\* the configured targets that are not on disk
MissingTargets == {i \in 1..Len(backup_dirs) : backup_dirs[i] \notin fs}

\* index of the target an object lies below
TargetOf(p) == CHOOSE i \in 1..Len(backup_dirs) : IsRelativeTo(p, backup_dirs[i])

\* C29: a configured target that is not on disk is passed over with a
\* warning and does not make the run fail: the other targets are processed
\* in configuration order, and the complete archive holds the entries of
\* every target that exists.
C29_MissingTargetSkipped ==
    /\ bwarn >= Cardinality({i \in MissingTargets : i < dir_idx})
    /\ \A i, j \in 1..Len(tar) :
         i < j => TargetOf(tar[i].src) <= TargetOf(tar[j].src)
    /\ (MissingTargets # {} /\ NoHardFault) => bpc # "failed"
    /\ (MissingTargets # {} /\ bpc \in {"archived", "compressed", "done"}) =>
         \A p \in UnderTargets :
            (~should_exclude(PathStr(p)) /\ Fault(p) = "none") => p \in Written

====
